---------------------------- MODULE Spec2Model ----------------------------
(***************************************************************************)
(* A model of cubeascii.c: an ASCII ray caster.  The viewpoint (t_player)  *)
(* is moved by move_player under key presses and every frame casts one ray *)
(* per screen column (init_ray, compute_initial_steps, perform_dda) and    *)
(* turns the wall distance into a wall slice (compute_wall_slice,          *)
(* get_shade).                                                             *)
(*                                                                         *)
(* Numbers.  The C code computes in float.  The model computes in fixed    *)
(* point: a float v is the integer v * Scale, a product or quotient is     *)
(* rounded to the nearest unit (as a float operation rounds to the nearest *)
(* representable value), and an (int) cast truncates toward zero.  The     *)
(* sentinel 1e30 of init_ray is the value Huge, which absorbs every        *)
(* finite operand.                                                         *)
(***************************************************************************)
EXTENDS Integers, Sequences, FiniteSets

VARIABLES
    map,         \* char *map[]: the grid, a sequence of rows of characters
    player,      \* t_player player of main
    pc,          \* where main's loop stands: "render", "input", "exit", "fault"
    nKeys,       \* how many keys main has read
    last,        \* the last call of move_player: its key, arguments and reads
    rays,        \* column -> the t_ray of that column after perform_dda
    draw_start,  \* int draw_start[SCREEN_WIDTH]
    draw_end,    \* int draw_end[SCREEN_WIDTH]
    wallColor    \* const char *wallColor[SCREEN_WIDTH]

vars == <<map, player, pc, nKeys, last, rays, draw_start, draw_end, wallColor>>

---------------------------------------------------------------------------
(* Configuration (#define) *)

MAP_WIDTH == 16
MAP_HEIGHT == 16
SCREEN_WIDTH == 90
SCREEN_HEIGHT == 50

\* The RGB components of the background colour each shade macro selects.
ShadeRGB ==
    [RED_1 |-> <<255, 50, 50>>,
     RED_2 |-> <<200, 30, 30>>,
     RED_3 |-> <<150, 20, 20>>,
     RED_4 |-> <<100, 10, 10>>,
     RED_5 |-> <<60, 5, 5>>]

BuiltinMap ==
    <<
       <<"1", "1", "1", "1", "1", "1", "1", "1", "1", "1", "1", "1", "1", "1", "1", "1">>,
       <<"1", "1", "0", "0", "0", "0", "0", "0", "0", "0", "0", "0", "0", "0", "0", "1">>,
       <<"1", "1", "0", "1", "0", "1", "0", "1", "0", "1", "0", "1", "0", "1", "0", "1">>,
       <<"1", "1", "0", "0", "0", "0", "0", "0", "0", "0", "0", "0", "0", "0", "0", "1">>,
       <<"1", "0", "0", "0", "0", "0", "0", "0", "0", "0", "0", "0", "1", "1", "0", "1">>,
       <<"1", "0", "1", "1", "1", "1", "0", "0", "0", "1", "1", "1", "1", "1", "0", "1">>,
       <<"1", "0", "0", "1", "1", "0", "0", "0", "0", "0", "1", "1", "1", "1", "0", "1">>,
       <<"1", "0", "0", "1", "0", "0", "0", "1", "0", "0", "1", "0", "0", "0", "0", "1">>,
       <<"1", "1", "1", "1", "0", "0", "0", "0", "0", "0", "1", "0", "0", "1", "1", "1">>,
       <<"1", "1", "1", "0", "1", "1", "1", "1", "1", "0", "0", "0", "1", "1", "1", "1">>,
       <<"1", "0", "1", "0", "0", "0", "1", "0", "0", "0", "0", "0", "1", "1", "1", "1">>,
       <<"1", "0", "1", "1", "1", "0", "0", "0", "0", "1", "1", "1", "1", "0", "0", "1">>,
       <<"1", "0", "0", "0", "0", "1", "1", "0", "0", "0", "0", "0", "0", "0", "0", "1">>,
       <<"1", "0", "1", "1", "0", "0", "1", "0", "0", "0", "0", "0", "0", "0", "0", "1">>,
       <<"1", "0", "0", "1", "1", "0", "0", "0", "0", "P", "0", "0", "0", "0", "0", "1">>,
       <<"1", "1", "1", "1", "1", "1", "1", "1", "1", "1", "1", "1", "1", "1", "1", "1">>
    >>

---------------------------------------------------------------------------
(* Fixed-point float arithmetic *)

\* One float unit: a float v is held as the integer v * Scale.
Scale == 1000

\* 1e30, the delta distance init_ray gives a ray parallel to the grid lines.
Huge == 2000000000

Abs(a) == IF a < 0 THEN -a ELSE a

\* a / b rounded to the nearest integer, halves away from zero (b > 0).
RDiv(a, b) ==
    IF a >= 0 THEN (a + b \div 2) \div b ELSE -((-a + b \div 2) \div b)

\* C's integer division: the quotient truncated toward zero (b > 0).
CDiv(a, b) == IF a >= 0 THEN a \div b ELSE -((-a) \div b)

\* (int)v of a float v.
Trunc(v) == CDiv(v, Scale)

\* The float product a * b; 1e30 times a non-zero fraction stays beyond
\* every finite distance of the grid.
FMul(a, b) ==
    IF b = Huge THEN (IF a = 0 THEN 0 ELSE Huge) ELSE RDiv(a * b, Scale)

\* The float sum a + b.
FAdd(a, b) == IF a = Huge \/ b = Huge THEN Huge ELSE a + b

\* fabs(1 / v) of a non-zero float v.
FInvAbs(v) == RDiv(Scale * Scale, Abs(v))

---------------------------------------------------------------------------
(* The grid *)

\* Whether map[row][col] lies inside the array (C indices, from 0).
InBounds(m, row, col) ==
    /\ row >= 0 /\ row < Len(m)
    /\ col >= 0 /\ col < Len(m[row + 1])

\* map[row][col].  A read outside the array is undefined: it yields g, the
\* character that happens to lie there.
CellAt(m, row, col, g) ==
    IF InBounds(m, row, col) THEN m[row + 1][col + 1] ELSE g

\* What an out-of-range read can yield, as far as the code tells apart.
Garbage == {"0", "1"}

\* A plausible slip: the wall character taken to be '#'.
IsWallHash(ch) == ch = "#"

\* The test the code makes of a cell: a wall is the character '1'.
IsWall(ch) == ch = "1"

---------------------------------------------------------------------------
(* main: the spawn viewpoint *)

\* The cells main's scan finds to hold 'P', as <<y, x>>.
SpawnCells(m) ==
    {c \in (0 .. MAP_HEIGHT - 1) \X (0 .. MAP_WIDTH - 1) : m[c[1] + 1][c[2] + 1] = "P"}

\* The scan runs y then x upward and every 'P' overwrites the player: the
\* last one stands.
LastSpawn(m) ==
    CHOOSE c \in SpawnCells(m) :
        \A d \in SpawnCells(m) : d[1] < c[1] \/ (d[1] = c[1] /\ d[2] <= c[2])

SpawnPlayer(m) ==
    LET c == LastSpawn(m) IN
    [x |-> c[2] * Scale + Scale \div 2,
     y |-> c[1] * Scale + Scale \div 2,
     dirX |-> 0,
     dirY |-> -Scale,
     planeX |-> (66 * Scale) \div 100,
     planeY |-> 0]

---------------------------------------------------------------------------
(* move_player *)

\* moveSpeed = 0.1
moveSpeed == 100

\* cos(rotSpeed) and sin(rotSpeed) for rotSpeed = 0.05
CosRot == 99875
SinRot == 4998

\* The unit cos(rotSpeed) and sin(rotSpeed) are held in (they are doubles).
RotScale == 100 * Scale

\* A plausible slip: the candidate is committed without the collision tests.
TranslateUnchecked(p, m, dx, dy, g) ==
    [p |-> [p EXCEPT !.x = p.x + dx, !.y = p.y + dy],
     newX |-> p.x + dx, newY |-> p.y + dy,
     reads |-> <<<<Trunc(p.y + dy), Trunc(p.x)>>, <<Trunc(p.y + dy), Trunc(p.x + dx)>>>>]

\* A plausible slip: X is tested against the Y held before the call, so
\* that neither axis sees what the other decided.
TranslateIndependent(p, m, dx, dy, g) ==
    LET newX == p.x + dx
        newY == p.y + dy
        readY == <<Trunc(newY), Trunc(p.x)>>
        readX == <<Trunc(p.y), Trunc(newX)>>
    IN  [p |-> [p EXCEPT
                  !.x = IF ~IsWall(CellAt(m, readX[1], readX[2], g)) THEN newX ELSE p.x,
                  !.y = IF ~IsWall(CellAt(m, readY[1], readY[2], g)) THEN newY ELSE p.y],
         newX |-> newX, newY |-> newY, reads |-> <<readY, readX>>]

\* A plausible slip: the move is refused whole when either axis is blocked.
TranslateAllOrNothing(p, m, dx, dy, g) ==
    LET newX == p.x + dx
        newY == p.y + dy
        readY == <<Trunc(newY), Trunc(p.x)>>
        readX == <<Trunc(p.y), Trunc(newX)>>
        free == /\ ~IsWall(CellAt(m, readY[1], readY[2], g))
                /\ ~IsWall(CellAt(m, readX[1], readX[2], g))
    IN  [p |-> [p EXCEPT !.x = IF free THEN newX ELSE p.x,
                         !.y = IF free THEN newY ELSE p.y],
         newX |-> newX, newY |-> newY, reads |-> <<readY, readX>>]

\* One translation: the candidate (newX, newY) = (x + dx, y + dy); Y is
\* committed if map[(int)newY][(int)x] is no wall, then X is committed if
\* map[(int)p->y][(int)newX] is no wall, p->y being the Y just decided.
Translate(p, m, dx, dy, g) ==
    LET newX == p.x + dx
        newY == p.y + dy
        readY == <<Trunc(newY), Trunc(p.x)>>
        y1 == IF ~IsWall(CellAt(m, readY[1], readY[2], g)) THEN newY ELSE p.y
        readX == <<Trunc(y1), Trunc(newX)>>
        x1 == IF ~IsWall(CellAt(m, readX[1], readX[2], g)) THEN newX ELSE p.x
    IN  [p |-> [p EXCEPT !.x = x1, !.y = y1],
         newX |-> newX, newY |-> newY, reads |-> <<readY, readX>>]

\* A plausible slip: the direction turns and the camera plane is forgotten.
RotateDirOnly(p, c, s) ==
    [p |-> [p EXCEPT !.dirX = RDiv(p.dirX * c - p.dirY * s, RotScale),
                     !.dirY = RDiv(p.dirX * s + p.dirY * c, RotScale)],
     newX |-> p.x, newY |-> p.y, reads |-> <<>>]

\* One rotation by the angle whose cosine and sine are c and s: both
\* vectors turn by it, each from its components before the call.  The
\* products are doubles; the assignment rounds the sum to float.
Rotate(p, c, s) ==
    LET oldDirX == p.dirX
        oldPlaneX == p.planeX
    IN  [p |-> [p EXCEPT !.dirX = RDiv(p.dirX * c - p.dirY * s, RotScale),
                         !.dirY = RDiv(oldDirX * s + p.dirY * c, RotScale),
                         !.planeX = RDiv(p.planeX * c - p.planeY * s, RotScale),
                         !.planeY = RDiv(oldPlaneX * s + p.planeY * c, RotScale)],
         newX |-> p.x, newY |-> p.y, reads |-> <<>>]

move_player(p, key, m, g) ==
    CASE key = "w" ->
           Translate(p, m, FMul(p.dirX, moveSpeed), FMul(p.dirY, moveSpeed), g)
      [] key = "s" ->
           Translate(p, m, -FMul(p.dirX, moveSpeed), -FMul(p.dirY, moveSpeed), g)
      [] key = "a" ->
           Translate(p, m, -FMul(p.planeX, moveSpeed), -FMul(p.planeY, moveSpeed), g)
      [] key = "d" ->
           Translate(p, m, FMul(p.planeX, moveSpeed), FMul(p.planeY, moveSpeed), g)
      [] key = "e" -> Rotate(p, CosRot, SinRot)
      [] key = "q" -> Rotate(p, CosRot, -SinRot)
      [] OTHER -> [p |-> p, newX |-> p.x, newY |-> p.y, reads |-> <<>>]

---------------------------------------------------------------------------
(* The ray of one screen column *)

\* Most loop iterations of perform_dda the model follows for one ray.
DdaFuel == 40

\* init_ray: the fields it assigns.
init_ray(column, p) ==
    LET cameraX == RDiv(2 * column * Scale, SCREEN_WIDTH) - Scale
        rayDirX == p.dirX + FMul(p.planeX, cameraX)
        rayDirY == p.dirY + FMul(p.planeY, cameraX)
    IN  [cameraX |-> cameraX,
         rayDirX |-> rayDirX,
         rayDirY |-> rayDirY,
         mapX |-> Trunc(p.x),
         mapY |-> Trunc(p.y),
         deltaDistX |-> IF rayDirX # 0 THEN FInvAbs(rayDirX) ELSE Huge,
         deltaDistY |-> IF rayDirY # 0 THEN FInvAbs(rayDirY) ELSE Huge,
         hit |-> 0]

\* A plausible slip: the step sign is set only for a negative direction
\* and stays 0 otherwise.
compute_initial_steps_NoPositiveStep(ray, p) ==
    LET onX == IF ray.rayDirX < 0
               THEN <<-1, FMul(p.x - ray.mapX * Scale, ray.deltaDistX)>>
               ELSE <<0, FMul(ray.mapX * Scale + Scale - p.x, ray.deltaDistX)>>
        onY == IF ray.rayDirY < 0
               THEN <<-1, FMul(p.y - ray.mapY * Scale, ray.deltaDistY)>>
               ELSE <<0, FMul(ray.mapY * Scale + Scale - p.y, ray.deltaDistY)>>
    IN  [stepX |-> onX[1], sideDistX |-> onX[2],
         stepY |-> onY[1], sideDistY |-> onY[2]]

\* compute_initial_steps: the fields it adds.
compute_initial_steps(ray, p) ==
    LET onX == IF ray.rayDirX < 0
               THEN <<-1, FMul(p.x - ray.mapX * Scale, ray.deltaDistX)>>
               ELSE <<1, FMul(ray.mapX * Scale + Scale - p.x, ray.deltaDistX)>>
        onY == IF ray.rayDirY < 0
               THEN <<-1, FMul(p.y - ray.mapY * Scale, ray.deltaDistY)>>
               ELSE <<1, FMul(ray.mapY * Scale + Scale - p.y, ray.deltaDistY)>>
    IN  [stepX |-> onX[1], sideDistX |-> onX[2],
         stepY |-> onY[1], sideDistY |-> onY[2]]

\* The loop of perform_dda, on the fields it changes; init holds the fields
\* it only reads (the delta distances and the step signs).  An iteration
\* steps to the next cell along the axis whose side distance is smaller and
\* reads that cell of the map; the loop ends when the cell is a wall.  A
\* read outside the array is undefined: the model stops the ray there with
\* oob set and hit still 0; it also stops, hit still 0, when the fuel runs
\* out.  steps counts the iterations.
RECURSIVE DdaLoop(_, _, _, _, _, _, _)
DdaLoop(sideDistX, sideDistY, mapX, mapY, steps, init, m) ==
    IF steps >= DdaFuel
    THEN [hit |-> 0, oob |-> FALSE, side |-> 0, steps |-> steps,
          sideDistX |-> sideDistX, sideDistY |-> sideDistY]
    ELSE IF sideDistX < sideDistY
         THEN LET sx == FAdd(sideDistX, init.deltaDistX)
                  mx == mapX + init.stepX
              IN  IF ~InBounds(m, mapY, mx)
                  THEN [hit |-> 0, oob |-> TRUE, side |-> 0, steps |-> steps + 1,
                        sideDistX |-> sx, sideDistY |-> sideDistY]
                  ELSE IF IsWall(m[mapY + 1][mx + 1])
                       THEN [hit |-> 1, oob |-> FALSE, side |-> 0, steps |-> steps + 1,
                             sideDistX |-> sx, sideDistY |-> sideDistY]
                       ELSE DdaLoop(sx, sideDistY, mx, mapY, steps + 1, init, m)
         ELSE LET sy == FAdd(sideDistY, init.deltaDistY)
                  my == mapY + init.stepY
              IN  IF ~InBounds(m, my, mapX)
                  THEN [hit |-> 0, oob |-> TRUE, side |-> 1, steps |-> steps + 1,
                        sideDistX |-> sideDistX, sideDistY |-> sy]
                  ELSE IF IsWall(m[my + 1][mapX + 1])
                       THEN [hit |-> 1, oob |-> FALSE, side |-> 1, steps |-> steps + 1,
                             sideDistX |-> sideDistX, sideDistY |-> sy]
                       ELSE DdaLoop(sideDistX, sy, mapX, my, steps + 1, init, m)

\* A plausible slip: the last step's delta distance is not taken back.
PerpWallDistOverstep(ray, r) ==
    [hit |-> r.hit, oob |-> r.oob, side |-> r.side, steps |-> r.steps,
     cameraX |-> ray.cameraX,
     perpWallDist |-> IF r.side = 0 THEN r.sideDistX ELSE r.sideDistY]

\* The end of perform_dda: the perpendicular wall distance, from the state
\* r the loop ended in.  The result keeps what the rest of the frame and
\* the properties read of the ray.
PerpWallDist(ray, r) ==
    [hit |-> r.hit, oob |-> r.oob, side |-> r.side, steps |-> r.steps,
     cameraX |-> ray.cameraX,
     perpWallDist |-> IF r.side = 0
                      THEN r.sideDistX - ray.deltaDistX
                      ELSE r.sideDistY - ray.deltaDistY]

\* perform_dda, for the ray as init_ray left it and the fields init that
\* compute_initial_steps added.
perform_dda(ray, init, m) ==
    PerpWallDist(ray,
                 DdaLoop(init.sideDistX, init.sideDistY, ray.mapX, ray.mapY, 0,
                         [deltaDistX |-> ray.deltaDistX,
                          deltaDistY |-> ray.deltaDistY,
                          stepX |-> init.stepX, stepY |-> init.stepY], m))

\* The ray as init_ray left it, through compute_initial_steps and
\* perform_dda.
CastFrom(ray, p, m) == perform_dda(ray, compute_initial_steps(ray, p), m)

\* What render does to cast the ray of one column.
CastRay(column, p, m) == CastFrom(init_ray(column, p), p, m)

---------------------------------------------------------------------------
(* The wall slice of one screen column *)

\* A plausible slip: the bands of 3.0 and 5.0 handed each other's shade.
get_shade_BandsSwapped(dist) ==
    IF dist < (15 * Scale) \div 10 THEN "RED_1"
    ELSE IF dist < 3 * Scale THEN "RED_2"
    ELSE IF dist < 5 * Scale THEN "RED_4"
    ELSE IF dist < 7 * Scale THEN "RED_3"
    ELSE "RED_5"

get_shade(dist) ==
    IF dist < (15 * Scale) \div 10 THEN "RED_1"
    ELSE IF dist < 3 * Scale THEN "RED_2"
    ELSE IF dist < 5 * Scale THEN "RED_3"
    ELSE IF dist < 7 * Scale THEN "RED_4"
    ELSE "RED_5"

\* What (int)(SCREEN_HEIGHT / 0.0f) can be: the conversion of an infinity
\* to int is undefined.
UndefInt == {-2147483647, 0, 2147483647}

\* A plausible slip: draw_end is not clamped to the last screen row.
compute_wall_slice_NoEndClamp(perpWallDist, u) ==
    LET lineHeight == IF perpWallDist = 0
                      THEN u
                      ELSE IF perpWallDist > 0
                           THEN CDiv(SCREEN_HEIGHT * Scale, perpWallDist)
                           ELSE -CDiv(SCREEN_HEIGHT * Scale, -perpWallDist)
        start == CDiv(-lineHeight, 2) + CDiv(SCREEN_HEIGHT, 2)
        end == CDiv(lineHeight, 2) + CDiv(SCREEN_HEIGHT, 2)
    IN  [start |-> IF start < 0 THEN 0 ELSE start,
         end |-> end,
         color |-> get_shade(perpWallDist)]

\* compute_wall_slice: the slice <<draw_start[x], draw_end[x], wallColor[x]>>
\* for the wall distance perpWallDist; u is what the undefined conversion
\* yields when the distance is 0.
compute_wall_slice(perpWallDist, u) ==
    LET lineHeight == IF perpWallDist = 0
                      THEN u
                      ELSE IF perpWallDist > 0
                           THEN CDiv(SCREEN_HEIGHT * Scale, perpWallDist)
                           ELSE -CDiv(SCREEN_HEIGHT * Scale, -perpWallDist)
        start == CDiv(-lineHeight, 2) + CDiv(SCREEN_HEIGHT, 2)
        end == CDiv(lineHeight, 2) + CDiv(SCREEN_HEIGHT, 2)
    IN  [start |-> IF start < 0 THEN 0 ELSE start,
         end |-> IF end >= SCREEN_HEIGHT THEN SCREEN_HEIGHT - 1 ELSE end,
         color |-> get_shade(perpWallDist)]

---------------------------------------------------------------------------
(* main: the loop *)

\* Most keys main reads in one run of the model.
MaxKeys == 5

Columns == 0 .. SCREEN_WIDTH - 1

\* A column no ray was cast for yet.
NoRay ==
    [hit |-> 0, oob |-> FALSE, side |-> 0, steps |-> 0, cameraX |-> 0,
     perpWallDist |-> 0]

NoMove == [key |-> "", x |-> 0, y |-> 0, newX |-> 0, newY |-> 0, reads |-> <<>>]

\* The state when main enters its loop: the spawn viewpoint, and the
\* zero-initialised column buffers.
Init ==
    /\ map = BuiltinMap
    /\ player = SpawnPlayer(BuiltinMap)
    /\ pc = "render"
    /\ nKeys = 0
    /\ last = NoMove
    /\ rays = [c \in Columns |-> NoRay]
    /\ draw_start = [c \in Columns |-> 0]
    /\ draw_end = [c \in Columns |-> 0]
    /\ wallColor = [c \in Columns |-> "NULL"]

\* The second half of render's loop body, for the rays r of the columns:
\* compute_wall_slice fills the three buffers.  A ray that never hits a
\* wall keeps render from returning ("fault").
\* (int)(SCREEN_HEIGHT / 0.0f) is undefined: u is what it yields.
WallSlices(r) ==
    IF \A c \in Columns : r[c].hit = 1
    THEN \E u \in (IF \E c \in Columns : r[c].perpWallDist = 0
                   THEN UndefInt ELSE {0}) :
           /\ draw_start' = [c \in Columns |->
                  compute_wall_slice(r[c].perpWallDist, u).start]
           /\ draw_end' = [c \in Columns |->
                  compute_wall_slice(r[c].perpWallDist, u).end]
           /\ wallColor' = [c \in Columns |->
                  compute_wall_slice(r[c].perpWallDist, u).color]
           /\ pc' = "input"
    ELSE /\ pc' = "fault"
         /\ UNCHANGED <<draw_start, draw_end, wallColor>>

\* render(player): the ray of every column is cast (init_ray,
\* compute_initial_steps, perform_dda), then sliced (compute_wall_slice).
Render ==
    /\ pc = "render"
    /\ rays' = [c \in Columns |-> CastRay(c, player, map)]
    /\ WallSlices(rays')
    /\ UNCHANGED <<map, player, nKeys, last>>

\* kbhit() finds key c; getch reads it and move_player applies it.
KeyPress(c) ==
    /\ pc = "input"
    /\ \E g \in Garbage :
         LET r == move_player(player, c, map, g)
         IN  /\ player' = r.p
             /\ last' = [key |-> c, x |-> player.x, y |-> player.y,
                         newX |-> r.newX, newY |-> r.newY, reads |-> r.reads]
    /\ nKeys' = nKeys + 1
    /\ pc' = "render"
    /\ UNCHANGED <<map, rays, draw_start, draw_end, wallColor>>

Forward == nKeys < MaxKeys /\ KeyPress("w")
Backward == nKeys < MaxKeys /\ KeyPress("s")
StrafeLeft == nKeys < MaxKeys /\ KeyPress("a")
StrafeRight == nKeys < MaxKeys /\ KeyPress("d")
RotateLeft == nKeys < MaxKeys /\ KeyPress("e")
RotateRight == nKeys < MaxKeys /\ KeyPress("q")

\* kbhit() finds no key: the loop sleeps and renders again.
NoKey ==
    /\ pc = "input"
    /\ pc' = "render"
    /\ UNCHANGED <<map, player, nKeys, last, rays, draw_start, draw_end, wallColor>>

\* The key is ESC (27): main leaves the loop.
Quit ==
    /\ pc = "input"
    /\ pc' = "exit"
    /\ UNCHANGED <<map, player, nKeys, last, rays, draw_start, draw_end, wallColor>>

Next ==
    \/ Render
    \/ Forward
    \/ Backward
    \/ StrafeLeft
    \/ StrafeRight
    \/ RotateLeft
    \/ RotateRight
    \/ NoKey
    \/ Quit

Spec == Init /\ [][Next]_vars

---------------------------------------------------------------------------
(* The program when the keyboard only delivers 'w' and 's' *)

\* Most keys main reads in one run of SpecWalk.
MaxWalk == 26

WalkForward == nKeys < MaxWalk /\ KeyPress("w")
WalkBackward == nKeys < MaxWalk /\ KeyPress("s")

NextWalk ==
    \/ Render
    \/ WalkForward
    \/ WalkBackward

\* Every behaviour of SpecWalk is a behaviour of the program: the one where
\* no other key is pressed.
SpecWalk == Init /\ [][NextWalk]_vars

---------------------------------------------------------------------------
(* The program when the keyboard only delivers 'e' and 'q' *)

\* Most keys main reads in one run of SpecTurn.
MaxTurns == 24

TurnLeft == nKeys < MaxTurns /\ KeyPress("e")
TurnRight == nKeys < MaxTurns /\ KeyPress("q")

NextTurn ==
    \/ Render
    \/ TurnLeft
    \/ TurnRight

SpecTurn == Init /\ [][NextTurn]_vars

---------------------------------------------------------------------------
(* move_player as a function: one key from any viewpoint of the map *)

\* The open cells next to the cell c = <<row, col>> of the built-in map.
OpenNeighbours(c) ==
    {d \in {<<c[1] - 1, c[2]>>, <<c[1] + 1, c[2]>>,
            <<c[1], c[2] - 1>>, <<c[1], c[2] + 1>>} :
        /\ InBounds(BuiltinMap, d[1], d[2])
        /\ ~IsWall(BuiltinMap[d[1] + 1][d[2] + 1])}

\* The cells a walk from the cells S can come to.
RECURSIVE Connected(_)
Connected(S) ==
    LET T == S \cup UNION {OpenNeighbours(c) : c \in S}
    IN  IF T = S THEN S ELSE Connected(T)

\* The cells of the built-in map the player can walk to from the spawn.
WalkableCells == Connected({LastSpawn(BuiltinMap)})

\* The headings of SpecMove are TurnStep left turns apart, from the spawn
\* heading to MaxHeadings * TurnStep turns (a full turn is 126).
TurnStep == 8
MaxHeadings == 15

\* The viewpoints ps, a viewpoint and those RotateLeft makes of it in turn,
\* carried on until there are n + 1 of them.
RECURSIVE LeftTurns(_, _)
LeftTurns(ps, n) ==
    IF Len(ps) >= n + 1 THEN ps
    ELSE LeftTurns(Append(ps, Rotate(ps[Len(ps)], CosRot, SinRot).p), n)

\* The spawn viewpoint and what every further RotateLeft makes of it.
SpawnTurns == LeftTurns(<<SpawnPlayer(BuiltinMap)>>, MaxHeadings * TurnStep)

Headings == {SpawnTurns[k * TurnStep + 1] : k \in 0 .. MaxHeadings}

\* Where in its cell the viewpoint of SpecMove stands, on either axis: near
\* the low edge, at the centre, near the high edge.
CellOffsets == {(4 * Scale) \div 100, Scale \div 2, (96 * Scale) \div 100}

\* main waits for a key at a viewpoint of the built-in map: in a walkable
\* cell, at one of the offsets, under one of the headings.  The frame
\* drawn for it is left out: move_player does not read the buffers.
InitMove ==
    /\ map = BuiltinMap
    /\ \E h \in Headings, c \in WalkableCells,
          ox \in CellOffsets, oy \in CellOffsets :
         player = [h EXCEPT !.x = c[2] * Scale + ox, !.y = c[1] * Scale + oy]
    /\ pc = "input"
    /\ nKeys = 0
    /\ last = NoMove
    /\ rays = [c \in Columns |-> NoRay]
    /\ draw_start = [c \in Columns |-> 0]
    /\ draw_end = [c \in Columns |-> 0]
    /\ wallColor = [c \in Columns |-> "NULL"]

NextMove ==
    \/ Forward
    \/ Backward
    \/ StrafeLeft
    \/ StrafeRight
    \/ RotateLeft
    \/ RotateRight

SpecMove == InitMove /\ [][NextMove]_vars

---------------------------------------------------------------------------
(* render as a function: one frame from any viewpoint of a bordered grid *)

\* Most columns and most rows of a room of SpecRay.
MaxRoom == 5

\* The grid of h rows and w columns whose border cells and whose cells
\* pillars (as <<row, column>>, from 1) are walls, every other cell open.
Room(w, h, pillars) ==
    [r \in 1 .. h |->
        [c \in 1 .. w |->
            IF r \in {1, h} \/ c \in {1, w} \/ <<r, c>> \in pillars
            THEN "1" ELSE "0"]]

\* The rooms of up to MaxRoom columns and rows, empty or with one pillar.
Rooms ==
    UNION {{Room(w, h, ps) :
               ps \in {{}} \cup {{q} : q \in (2 .. h - 1) \X (2 .. w - 1)}} :
           w \in 3 .. MaxRoom, h \in 3 .. MaxRoom}

\* The cells of m that are not walls, as <<row, column>> from 0.
OpenCells(m) ==
    {c \in (0 .. Len(m) - 1) \X (0 .. Len(m[1]) - 1) :
        ~IsWall(m[c[1] + 1][c[2] + 1])}

\* The viewpoint p after k quarter turns to the left (cosine 0, sine 1).
RECURSIVE QuarterTurned(_, _)
QuarterTurned(p, k) ==
    IF k = 0 THEN p ELSE QuarterTurned(Rotate(p, 0, RotScale).p, k - 1)

\* The spawn heading and its three quarter turns: the headings along the
\* grid axes.
AxisHeadings ==
    {QuarterTurned(SpawnPlayer(BuiltinMap), 0),
     QuarterTurned(SpawnPlayer(BuiltinMap), 1),
     QuarterTurned(SpawnPlayer(BuiltinMap), 2),
     QuarterTurned(SpawnPlayer(BuiltinMap), 3)}

\* Headings off the axes: the spawn heading after 12, 47, 75 and 107 left
\* turns, one in each quadrant.
ObliqueTurns == {12, 47, 75, 107}
ObliqueHeadings == {SpawnTurns[k + 1] : k \in ObliqueTurns}

\* Where in its cell the viewpoint of SpecRay stands, on either axis: on
\* the low edge or at the centre.
RayOffsets == {0, Scale \div 2}

\* render is about to draw the frame of a viewpoint in an open cell of a
\* bordered grid: a room, or the built-in map seen from a cell centre.
InitRay ==
    /\ \/ /\ map \in Rooms
          /\ \E h \in AxisHeadings \cup ObliqueHeadings, c \in OpenCells(map),
                ox \in RayOffsets, oy \in RayOffsets :
               player = [h EXCEPT !.x = c[2] * Scale + ox, !.y = c[1] * Scale + oy]
       \/ /\ map = BuiltinMap
          /\ \E h \in AxisHeadings \cup ObliqueHeadings, c \in OpenCells(map) :
               player = [h EXCEPT !.x = c[2] * Scale + Scale \div 2,
                                  !.y = c[1] * Scale + Scale \div 2]
    /\ pc = "render"
    /\ nKeys = 0
    /\ last = NoMove
    /\ rays = [c \in Columns |-> NoRay]
    /\ draw_start = [c \in Columns |-> 0]
    /\ draw_end = [c \in Columns |-> 0]
    /\ wallColor = [c \in Columns |-> "NULL"]

NextRay == Render

SpecRay == InitRay /\ [][NextRay]_vars

---------------------------------------------------------------------------
(* compute_wall_slice and get_shade as functions of the wall distance *)

\* The distances of the columns of one state of SpecSlice are SliceStride
\* apart, or one float unit apart.
SliceStride == 100
SliceStrides == {1, SliceStride}

\* The distance of column 0 is a multiple of SliceBase, up to MaxBase of
\* them, plus one float unit.
SliceBase == 50
MaxBase == 160

\* render has cast the rays and is about to slice them: every ray hit a
\* wall, at a positive distance that grows with the column.
InitSlice ==
    /\ map = BuiltinMap
    /\ player = SpawnPlayer(BuiltinMap)
    /\ pc = "slice"
    /\ nKeys = 0
    /\ last = NoMove
    /\ \E b \in 0 .. MaxBase, stride \in SliceStrides :
         rays = [c \in Columns |->
                    [NoRay EXCEPT !.hit = 1,
                                  !.perpWallDist = 1 + b * SliceBase + c * stride]]
    /\ draw_start = [c \in Columns |-> 0]
    /\ draw_end = [c \in Columns |-> 0]
    /\ wallColor = [c \in Columns |-> "NULL"]

\* The calls of compute_wall_slice render makes for the rays it has cast.
SliceFrame ==
    /\ pc = "slice"
    /\ WallSlices(rays)
    /\ UNCHANGED <<map, player, nKeys, last, rays>>

NextSlice == SliceFrame

SpecSlice == InitSlice /\ [][NextSlice]_vars

---------------------------------------------------------------------------
(* Properties *)

TranslationKeys == {"w", "s", "a", "d"}
RotationKeys == {"e", "q"}

\* The last key was a translation that a wall stopped on at least one axis.
Blocked ==
    /\ last.key \in TranslationKeys
    /\ (player.x # last.newX \/ player.y # last.newY)

\* C1: after any sequence of movement commands from the spawn viewpoint,
\* the cell that holds the player, map[(int)y][(int)x], is inside the map
\* and is not a wall.
C1_PlayerNeverInWall ==
    /\ InBounds(map, Trunc(player.y), Trunc(player.x))
    /\ ~IsWall(CellAt(map, Trunc(player.y), Trunc(player.x), "1"))

\* C1's case: a wall has just refused a candidate position, and the player
\* stands in an open cell away from the spawn.
C1_Witness ==
    /\ Blocked
    /\ player # SpawnPlayer(BuiltinMap)
    /\ C1_PlayerNeverInWall

\* C2: every read of the map lies inside it: the cells move_player tests
\* (the last call's reads) and the cells perform_dda traverses for every
\* screen column (no ray's oob is set).
C2_ReadsInBounds ==
    /\ \A i \in 1 .. Len(last.reads) :
         InBounds(map, last.reads[i][1], last.reads[i][2])
    /\ \A c \in Columns : ~rays[c].oob

\* C2's case: move_player has tested its two candidate cells, one of them a
\* wall, and the frame after it was rendered, with a ray 7 cells long.
C2_Witness ==
    /\ pc = "input"
    /\ Blocked
    /\ Len(last.reads) = 2
    /\ \A c \in Columns : rays[c].hit = 1
    /\ \E c \in Columns : rays[c].steps >= 7

\* The dot product of the direction and the camera plane, and the squared
\* length of the camera plane, in squared float units.
Dot(p) == p.dirX * p.planeX + p.dirY * p.planeY
PlaneSq(p) == p.planeX * p.planeX + p.planeY * p.planeY

\* The tolerance of C8 for one rotation: 0.0012.  A rotation rounds each of
\* the four components by at most half a float unit, which moves the dot
\* product and the squared length by less than that.
RotTol == (12 * Scale * Scale) \div 10000

\* C8: after any sequence of rotations the direction and the camera plane
\* stay perpendicular and the camera plane keeps the length main gave it:
\* the dot product is 0, and the squared length of the camera plane is the
\* one main set, both within RotTol for every rotation applied.
C8_RotationKeepsOrthogonal ==
    /\ Abs(Dot(player)) <= nKeys * RotTol
    /\ Abs(PlaneSq(player) - PlaneSq(SpawnPlayer(BuiltinMap))) <= nKeys * RotTol

\* C8's case: a rotation has just been applied, the eighth key or later,
\* and the vectors are no longer the ones main set.
C8_Witness ==
    /\ last.key \in RotationKeys
    /\ nKeys >= 8
    /\ player.dirX # 0
    /\ player.planeY # 0

\* Whether map[(int)y][(int)x] is a wall; x and y lie inside the map.
WallAt(x, y) == IsWall(CellAt(map, Trunc(y), Trunc(x), "1"))

\* C4's precondition, for the last call of move_player: the key was 'w',
\* the cell at (candidate X, Y before the call) is a wall and the cell at
\* (X before the call, candidate Y) is open.
WallOnXOnly ==
    /\ last.key = "w"
    /\ WallAt(last.newX, last.y)
    /\ ~WallAt(last.x, last.newY)

\* C4 as the code has it: under C4's precondition Forward commits the
\* candidate Y; it leaves X unchanged when the cell at (candidate X,
\* candidate Y) is a wall, and commits the candidate X too when that cell
\* is open.
C4_SlideUnlessCornerOpen ==
    WallOnXOnly =>
        /\ player.y = last.newY
        /\ player.x = IF WallAt(last.newX, last.newY) THEN last.x ELSE last.newX

\* C4's case: Forward slid along a wall on the X axis: Y moved, X did not.
C4_Witness ==
    /\ WallOnXOnly
    /\ last.newX # last.x
    /\ player.y = last.newY
    /\ player.y # last.y
    /\ player.x = last.x

\* C4 as stated: under C4's precondition Forward commits the candidate Y
\* and leaves X unchanged.
C4_SlideAlways ==
    WallOnXOnly => (player.y = last.newY /\ player.x = last.x)

\* C9 as the code has it, for every translation key: the candidate Y is
\* committed if and only if the cell at (X before the call, candidate Y)
\* is open, and the candidate X is committed if and only if the cell at
\* (candidate X, Y after that decision) is open.
C9_CommitYThenX ==
    last.key \in TranslationKeys =>
        LET yAfter == IF WallAt(last.x, last.newY) THEN last.y ELSE last.newY
        IN  /\ player.y = yAfter
            /\ player.x = IF WallAt(last.newX, yAfter) THEN last.x ELSE last.newX

\* C9's case: the candidate Y was committed into another row of the map
\* and the X test, made in that row, came out other than it would have in
\* the row the player left.
C9_Witness ==
    /\ last.key \in TranslationKeys
    /\ player.y = last.newY
    /\ Trunc(player.y) # Trunc(last.y)
    /\ last.newX # last.x
    /\ WallAt(last.newX, last.newY) # WallAt(last.newX, last.y)

\* C9 as stated: each axis is decided by the cell at its candidate and the
\* other axis's value before the call.
C9_CommitIndependent ==
    last.key \in TranslationKeys =>
        /\ player.y = (IF WallAt(last.x, last.newY) THEN last.y ELSE last.newY)
        /\ player.x = (IF WallAt(last.newX, last.y) THEN last.x ELSE last.newX)

\* C3: in a grid bordered by walls, from a viewpoint in an open cell, the
\* loop of perform_dda ends with hit = 1 for every screen column, without
\* leaving the grid, after at most gridWidth + gridHeight iterations.
C3_DdaTerminates ==
    /\ pc # "fault"
    /\ pc = "input" =>
          \A c \in Columns :
             /\ rays[c].hit = 1
             /\ ~rays[c].oob
             /\ rays[c].steps <= Len(map[1]) + Len(map)

\* C3's case: a frame of the built-in map was cast and one of its rays
\* crossed 12 cells or more before it hit a wall.
C3_Witness ==
    /\ pc = "input"
    /\ map = BuiltinMap
    /\ \A c \in Columns : rays[c].hit = 1
    /\ \E c \in Columns : rays[c].steps >= 12

\* The column whose cameraX is 0.
CentreColumn == SCREEN_WIDTH \div 2

\* C5's precondition: the frame was drawn from a cell centre, facing along
\* a grid axis.
CentredOnAxis ==
    /\ pc = "input"
    /\ player.x % Scale = Scale \div 2
    /\ player.y % Scale = Scale \div 2
    /\ \/ player.dirX = 0 /\ Abs(player.dirY) = Scale
       \/ player.dirY = 0 /\ Abs(player.dirX) = Scale
    /\ rays[CentreColumn].cameraX = 0

\* How many cells ahead of the player's cell the first wall cell lies,
\* along the heading of an axis-facing player.
CellsToWall ==
    LET sx == player.dirX \div Scale
        sy == player.dirY \div Scale
        WallAhead(d) == IsWall(CellAt(map, Trunc(player.y) + d * sy,
                                      Trunc(player.x) + d * sx, "1"))
    IN  CHOOSE d \in 1 .. Len(map) + Len(map[1]) :
            WallAhead(d) /\ \A e \in 1 .. d - 1 : ~WallAhead(e)

\* The axis an axis-facing player travels along, as perform_dda numbers
\* the hit sides: 0 for X, 1 for Y.
TravelAxis == IF player.dirX = 0 THEN 1 ELSE 0

\* C5 as the code has it: from a cell centre, facing along a grid axis a
\* wall cell d cells ahead, the centre-column ray gets the distance to the
\* face of that cell, d - 0.5, and the hit side is the axis of travel.
C5_DistanceToWallFace ==
    CentredOnAxis =>
        /\ rays[CentreColumn].perpWallDist = CellsToWall * Scale - Scale \div 2
        /\ rays[CentreColumn].side = TravelAxis

\* C5's case: the 3x3 room, seen from (1.5, 1.5) facing north: the
\* centre-column ray hit the north wall on a Y side, half a cell away.
C5_Witness ==
    /\ CentredOnAxis
    /\ map = Room(3, 3, {})
    /\ player.x = Scale + Scale \div 2
    /\ player.y = Scale + Scale \div 2
    /\ player.dirY = -Scale
    /\ CellsToWall = 1
    /\ rays[CentreColumn].side = 1
    /\ rays[CentreColumn].perpWallDist = Scale \div 2

\* The tolerance of C5 on a distance: 0.01.
DistTol == Scale \div 100

\* C5 as stated: the centre-column ray gets the distance d, within
\* tolerance, and the hit side is the axis of travel.
C5_DistanceIsCellCount ==
    CentredOnAxis =>
        /\ Abs(rays[CentreColumn].perpWallDist - CellsToWall * Scale) <= DistTol
        /\ rays[CentreColumn].side = TravelAxis

\* C6: for every column sliced at a positive wall distance, draw_start +
\* draw_end is SCREEN_HEIGHT - 1 or one more, whether or not the slice was
\* clamped to the screen.
C6_SliceCentred ==
    pc = "input" =>
        \A c \in Columns :
            rays[c].perpWallDist > 0 =>
                /\ draw_start[c] + draw_end[c] >= SCREEN_HEIGHT - 1
                /\ draw_start[c] + draw_end[c] <= SCREEN_HEIGHT

\* C6's case: one frame holds a slice clamped at both ends and a slice
\* that lies within the screen.
C6_Witness ==
    /\ pc = "input"
    /\ \A c \in Columns : rays[c].perpWallDist > 0
    /\ \E c \in Columns :
         /\ CDiv(SCREEN_HEIGHT * Scale, rays[c].perpWallDist) > SCREEN_HEIGHT + 2
         /\ draw_start[c] = 0
         /\ draw_end[c] = SCREEN_HEIGHT - 1
    /\ \E c \in Columns :
         /\ draw_start[c] > 0
         /\ draw_end[c] < SCREEN_HEIGHT - 1
         /\ draw_start[c] + draw_end[c] = SCREEN_HEIGHT

\* The intensity of a shade: the red component of its colour.
Intensity(shade) == ShadeRGB[shade][1]

\* The distances at which the shade changes: 1.5, 3.0, 5.0, 7.0.
BandEdges == {(15 * Scale) \div 10, 3 * Scale, 5 * Scale, 7 * Scale}

\* The shades from the most intense to the least.
BandOrder == <<"RED_1", "RED_2", "RED_3", "RED_4", "RED_5">>

\* C7: of two columns the one with the smaller wall distance has a shade at
\* least as intense; and the shade of a column is the band its distance
\* falls in, counting the band edges it has reached.
C7_CloserNeverDimmer ==
    pc = "input" =>
        /\ \A c1, c2 \in Columns :
              rays[c1].perpWallDist < rays[c2].perpWallDist =>
                  Intensity(wallColor[c1]) >= Intensity(wallColor[c2])
        /\ \A c \in Columns :
              wallColor[c] =
                  BandOrder[1 + Cardinality({e \in BandEdges : e <= rays[c].perpWallDist})]
        /\ \A i \in 1 .. Len(BandOrder) - 1 :
              Intensity(BandOrder[i]) > Intensity(BandOrder[i + 1])

\* C7's case: one frame holds columns of all five shades.
C7_Witness ==
    /\ pc = "input"
    /\ \A c \in Columns : rays[c].perpWallDist > 0
    /\ {wallColor[c] : c \in Columns} = {BandOrder[i] : i \in 1 .. Len(BandOrder)}

\* C10: the wall distance compute_wall_slice divides by is strictly
\* positive for every column of every frame rendered.
C10_DivisorPositive ==
    pc = "input" => \A c \in Columns : rays[c].perpWallDist > 0

===========================================================================
